---- MODULE Spec2Model ----
(***************************************************************************)
(* The Batch task-type driver of cms/service/TaskType.py: compile() and    *)
(* execute() of BatchTaskType, with the sandbox helpers they call.         *)
(*                                                                         *)
(* One driver object works on one submission.  Every sandbox operation is  *)
(* one step; the straight-line code that follows it (classification,       *)
(* finish_* helpers, the loop of execute()) belongs to the same step.      *)
(* A sandbox operation either succeeds or raises IOError/OSError; the      *)
(* sandbox's report (exit status, exit code, files) is an input.           *)
(***************************************************************************)
EXTENDS Integers, Sequences, FiniteSets, TLC

(* ---------------------------------------------------------------- bounds *)
MaxCalls == 2
MaxFiles == 2
MaxTestcases == 2
MaxEvaluations == 3
MaxManagers == 1
MaxLen == 4
MaxEdits == 2

(* ------------------------------------------------------ program constants *)
\* compile(): self.sandbox.timeout = 8, address_space = 256 * 1024
CompileTimeout == 8
CompileAddressSpace == 262144
\* execute_single(): address_space = memory_limit * 1024
KiloFactor == 1024
\* execute_single(): self.sandbox.timeout = 0, address_space = None for the manager
ManagerTimeout == 0
NoAddressSpace == 0
\* outcomes are kept in tenths: 0.0 is 0 and 1.0 is 10
OutcomeZero == 0
OutcomeOne == 10
\* Evaluation(text=None, outcome=None, ...)
NoOutcome == -1000

None == "None"

\* Sandbox.EXIT_* values, and one value that is none of them
EXIT_OK == "ok"
EXIT_TIMEOUT == "timeout"
EXIT_SIGNAL == "signal"
EXIT_SANDBOX_ERROR == "sandbox error"
EXIT_SYSCALL == "syscall"
EXIT_FILE_ACCESS == "file access"
EXIT_UNKNOWN == "unknown"
ExitStatuses ==
    {EXIT_OK, EXIT_TIMEOUT, EXIT_SIGNAL, EXIT_SANDBOX_ERROR, EXIT_SYSCALL,
     EXIT_FILE_ACCESS, EXIT_UNKNOWN}
ExitCodes == {0, 1}

\* what a top-level call hands to its caller: a return value or an exception
RetTrue == "True"
RetFalse == "False"
JobException == "JobException"
TypeError == "TypeError"

VARIABLES
    pc,                   \* position of the driver
    calls,                \* top-level calls started so far
    lastCall,             \* "none", "compile" or "execute"
    result,               \* how the last finished call ended
    keep_sandbox,         \* Config.keep_sandbox
    sandbox,              \* self.sandbox: 0 = attribute not set, else index
    sandboxes,            \* every Sandbox object ever constructed
    files,                \* compile(): len(self.submission.files) as read
    compilation_outcome,  \* self.submission.compilation_outcome
    compilation_text,     \* self.submission.compilation_text
    executables,          \* keys of self.submission.executables
    session_executables,  \* Executable records staged with session.add
    evaluations,          \* self.submission.evaluations
    testcases,            \* len(self.submission.task.testcases)
    managers,             \* len(self.submission.task.managers)
    time_limit,           \* self.submission.task.time_limit
    memory_limit,         \* self.submission.task.memory_limit
    valid,                \* compile(): verify_source's first result
    language,             \* compile(): verify_source's second result
    exit_status,          \* local of compile() / execute_single()
    exit_code,            \* local of compile() / execute_single()
    output_txt,           \* execute_single(): file_exists("output.txt")
    raised,               \* the wrapper that raised JobException in this call
    stdout,               \* compile(): compiler stdout as read
    stderr,               \* compile(): compiler stderr as read
    test_number,          \* execute(): loop variable
    executable_filename,  \* self.executable_filename
    pre,                  \* the submission and sandbox count when the call began
    singles,              \* execute(): what each execute_single of this call did
    manager_lines,        \* execute_single(): the manager's first stdout and
                          \* stderr lines once read, else <<>>
    wd_output,            \* white_diff(): the first file
    wd_res,               \* white_diff(): the second file
    wd_result,            \* white_diff(): what it returned
    wd_edits,             \* whitespace edits that led from wd_output to wd_res
    wd_safe               \* no edit so far joined or split a token

vars ==
    <<pc, calls, lastCall, result, keep_sandbox, sandbox, sandboxes, files,
      compilation_outcome, compilation_text, executables, session_executables,
      evaluations, testcases, managers, time_limit, memory_limit, valid,
      language, exit_status, exit_code, output_txt, raised, stdout, stderr,
      test_number, executable_filename, pre, singles, manager_lines,
      wd_output, wd_res,
      wd_result, wd_edits, wd_safe>>

\* the comparator called on its own, outside a driver
diffVars == <<wd_output, wd_res, wd_result, wd_edits, wd_safe>>
driverVars ==
    <<pc, calls, lastCall, result, keep_sandbox, sandbox, sandboxes, files,
      compilation_outcome, compilation_text, executables, session_executables,
      evaluations, testcases, managers, time_limit, memory_limit, valid,
      language, exit_status, exit_code, output_txt, raised, stdout, stderr,
      test_number, executable_filename, pre, singles, manager_lines>>

submissionVars ==
    <<files, compilation_outcome, compilation_text, executables,
      session_executables, evaluations>>
taskVars == <<testcases, managers, time_limit, memory_limit>>
compileLocals == <<valid, language, stdout, stderr>>
executeLocals == <<test_number, executable_filename, singles>>

(* ------------------------------------------------------------- sandboxes *)
\* A Sandbox object as the driver sees it: the files staged into it, the
\* configuration the driver set, each execute() with the configuration and
\* files it ran under, and how often delete() was invoked on it.
NewSandbox ==
    [deletes |-> 0, executes |-> 0, files |-> {}, allow_path |-> {},
     timeout |-> 0, address_space |-> NoAddressSpace, runs |-> <<>>]

\* a sandbox is allocated from its construction until delete() is invoked
Allocated(sb) == sb.deletes = 0

\* Once the compile() or execute_single() that made a sandbox has ended, the
\* driver touches it again only through delete(); from then on only the
\* counts of its delete() and execute() invocations are kept.
Retire(sbs) ==
    IF sandbox = 0
    THEN sbs
    ELSE [sbs EXCEPT ![sandbox] =
              [deletes |-> @.deletes, executes |-> @.executes]]

safe_delete_sandbox(sbs) ==
    IF sandbox # 0 /\ ~keep_sandbox
    THEN [sbs EXCEPT ![sandbox].deletes = @ + 1]
    ELSE sbs

safe_create_sandbox(ok) ==
    IF ok
    THEN [raised |-> FALSE, by |-> None, sandbox |-> Len(sandboxes) + 1,
          sandboxes |-> Append(sandboxes, NewSandbox)]
    ELSE [raised |-> TRUE, by |-> "safe_create_sandbox",
          sandbox |-> sandbox,
          sandboxes |-> safe_delete_sandbox(sandboxes)]

safe_create_file_from_storage(name, ok) ==
    IF ok
    THEN [raised |-> FALSE, by |-> None,
          sandboxes |-> [sandboxes EXCEPT ![sandbox].files = @ \cup {name}]]
    ELSE [raised |-> TRUE, by |-> "safe_create_file_from_storage",
          sandboxes |-> safe_delete_sandbox(sandboxes)]

safe_get_file_to_storage(name, ok) ==
    IF ok
    THEN [raised |-> FALSE, by |-> None, sandboxes |-> sandboxes]
    ELSE [raised |-> TRUE, by |-> "safe_get_file_to_storage",
          sandboxes |-> safe_delete_sandbox(sandboxes)]

safe_get_file_to_string(name, ok) ==
    IF ok
    THEN [raised |-> FALSE, by |-> None, sandboxes |-> sandboxes]
    ELSE [raised |-> TRUE, by |-> "safe_get_file_to_string",
          sandboxes |-> safe_delete_sandbox(sandboxes)]

\* safe_get_file without the release in its except branch
safe_get_file_leaks(name, ok) ==
    [raised |-> ~ok, by |-> IF ok THEN None ELSE "safe_get_file",
     sandboxes |-> sandboxes]

safe_get_file(name, ok) ==
    IF ok
    THEN [raised |-> FALSE, by |-> None, sandboxes |-> sandboxes]
    ELSE [raised |-> TRUE, by |-> "safe_get_file",
          sandboxes |-> safe_delete_sandbox(sandboxes)]

\* sandbox.execute(command): the run is recorded with the configuration and
\* the files the sandbox holds when it starts
safe_sandbox_execute(command, ok) ==
    IF ok
    THEN [raised |-> FALSE, by |-> None,
          sandboxes |->
              [sandboxes EXCEPT
                  ![sandbox].executes = @ + 1,
                  ![sandbox].runs =
                      Append(@, [command |-> command,
                                 files |-> sandboxes[sandbox].files,
                                 allow_path |-> sandboxes[sandbox].allow_path,
                                 timeout |-> sandboxes[sandbox].timeout,
                                 address_space |->
                                     sandboxes[sandbox].address_space])]]
    ELSE [raised |-> TRUE, by |-> "safe_sandbox_execute",
          sandboxes |-> safe_delete_sandbox(sandboxes)]

(* --------------------------------------------------------------- compile *)
\* Byte strings read from the compiler: blank, plain text, or bytes that are
\* not UTF-8.
BLANK == "   \n"
PLAIN == "warning\n"
NOT_UTF8 == "\\xff\n"
CompilerStdout == {BLANK, NOT_UTF8}
CompilerStderr == {PLAIN, NOT_UTF8}

\* stdout.strip() == ""
IsBlank(s) == s = BLANK
\* if stdout.strip() == "": stdout = "(empty)\n"
OrEmpty(s) == IF IsBlank(s) THEN "(empty)\n" ELSE s

\* the text handed to finish_compilation: "<head> %s\n...%s...%s"
CompileText(head, out, err) == [head |-> head, stdout |-> out, stderr |-> err]
InvalidFilesText == CompileText("Invalid files in submission", "", "")
NoText == CompileText(None, "", "")
\* line 108: the message meant for a text that is not UTF-8
CannotDecodeText == CompileText("Cannot decode compilation text.", "", "")

\* text.decode("utf-8") raises UnicodeDecodeError on bytes that are not UTF-8
Decodable(text) == text.stdout # NOT_UTF8 /\ text.stderr # NOT_UTF8

\* finish_compilation(success, compilation_success, text) on sandboxes sbs.
\* The except branch calls self.submission.compilation_text(...), a call of
\* the attribute's value, which raises TypeError after the outcome was set.
finish_compilation(sbs, success, compilation_success, text) ==
    LET released == safe_delete_sandbox(sbs) IN
    IF ~success
    THEN [ret |-> RetFalse, sandboxes |-> released,
          compilation_outcome |-> compilation_outcome,
          compilation_text |-> compilation_text]
    ELSE LET outcome == IF compilation_success THEN "ok" ELSE "fail" IN
         IF Decodable(text)
         THEN [ret |-> RetTrue, sandboxes |-> released,
               compilation_outcome |-> outcome, compilation_text |-> text]
         ELSE [ret |-> TypeError, sandboxes |-> released,
               compilation_outcome |-> outcome,
               compilation_text |-> compilation_text]

\* the default arguments of finish_compilation(success)
finish_compilation_default(sbs, success) ==
    finish_compilation(sbs, success, FALSE, CompileText("", "", ""))

\* how many times the driver has run a command in any sandbox
RECURSIVE TotalExecutes(_)
TotalExecutes(sbs) ==
    IF sbs = <<>> THEN 0 ELSE Head(sbs).executes + TotalExecutes(Tail(sbs))

\* the submission and the sandboxes as a call finds them
Snapshot ==
    [evaluations |-> evaluations,
     executes |-> TotalExecutes(sandboxes),
     compilation_outcome |-> compilation_outcome,
     compilation_text |-> compilation_text,
     executables |-> executables,
     session_executables |-> session_executables,
     sandboxes |-> Len(sandboxes)]

\* the call ends: ret is its return value or the exception it raises
Running == "running"
EndCall(ret) == pc' = "idle" /\ result' = ret
Continue(next) == pc' = next /\ result' = Running

\* compile() returns what finish_compilation f returns (or raises)
CompileReturns(f) ==
    /\ sandboxes' = Retire(f.sandboxes)
    /\ compilation_outcome' = f.compilation_outcome
    /\ compilation_text' = f.compilation_text
    /\ EndCall(f.ret)

\* a wrapper raised JobException: nothing in compile() catches it
CompileRaises(r) ==
    /\ sandboxes' = Retire(r.sandboxes)
    /\ raised' = r.by
    /\ EndCall(JobException)
    /\ UNCHANGED <<compilation_outcome, compilation_text>>

\* compile() goes on to its next sandbox operation
CompileContinues(sbs, next) ==
    /\ sandboxes' = sbs
    /\ Continue(next)
    /\ UNCHANGED <<raised, compilation_outcome, compilation_text>>

Languages == {None, "c"}

\* the check without "language == None"
InvalidSubmission_no_language(v, l, n) == ~v \/ n # 1

\* lines 201 and 206: the submission is refused before any sandbox is made
InvalidSubmission(v, l, n) == ~v \/ l = None \/ n # 1

\* compile(), lines 198-209: verify_source and the file count
CompileCall ==
    /\ pc = "idle"
    /\ calls < MaxCalls
    /\ calls' = calls + 1
    /\ lastCall' = "compile"
    /\ pre' = Snapshot
    /\ exit_status' = None /\ exit_code' = 0 /\ output_txt' = None
    /\ stdout' = None /\ stderr' = None
    /\ singles' = <<>>
    /\ test_number' = 0
    /\ raised' = None
    /\ \E v \in BOOLEAN, l \in Languages, n \in 0..MaxFiles :
          /\ valid' = v
          /\ language' = l
          /\ files' = n
          /\ IF InvalidSubmission(v, l, n)
             THEN CompileReturns(
                      finish_compilation(sandboxes, TRUE, FALSE,
                                         InvalidFilesText))
             ELSE /\ Continue("compile_create")
                  /\ UNCHANGED <<sandboxes, compilation_outcome,
                                 compilation_text>>
    /\ UNCHANGED <<keep_sandbox, sandbox, executables, session_executables,
                   evaluations, taskVars, executable_filename>>
    /\ manager_lines' = <<>>
    /\ UNCHANGED diffVars

compileFrame ==
    <<calls, lastCall, keep_sandbox, files, evaluations, taskVars, valid,
      language, output_txt, executeLocals, pre>>

\* line 215
CompileCreateSandbox ==
    /\ pc = "compile_create"
    /\ \E ok \in BOOLEAN :
          LET r == safe_create_sandbox(ok) IN
          /\ sandbox' = r.sandbox
          /\ IF r.raised THEN CompileRaises(r)
                         ELSE CompileContinues(r.sandboxes, "compile_stage")
    /\ UNCHANGED <<compileFrame, executables, session_executables,
                   exit_status, exit_code, stdout, stderr>>
    /\ UNCHANGED manager_lines
    /\ UNCHANGED diffVars

\* lines 225-238: the configuration of the compiler's sandbox
CompileConfigure(sb) ==
    [sb EXCEPT !.allow_path = {"/etc/", "/lib/", "/usr/", "<sandbox>/"},
               !.timeout = CompileTimeout,
               !.address_space = CompileAddressSpace]

\* lines 216-238
CompileStageSource ==
    /\ pc = "compile_stage"
    /\ \E ok \in BOOLEAN :
          LET r == safe_create_file_from_storage("source", ok) IN
          IF r.raised
          THEN CompileRaises(r)
          ELSE CompileContinues(
                   [r.sandboxes EXCEPT ![sandbox] = CompileConfigure(@)],
                   "compile_execute")
    /\ UNCHANGED <<compileFrame, sandbox, executables, session_executables,
                   exit_status, exit_code, stdout, stderr>>
    /\ UNCHANGED manager_lines
    /\ UNCHANGED diffVars

\* the exit reports a sandbox can give: a process that did not exit by
\* itself has no exit code of its own, and 0 is reported
ExitReports ==
    {r \in [status : ExitStatuses, code : ExitCodes] :
        r.status # EXIT_OK => r.code = 0}

\* lines 241-245
CompileExecute ==
    /\ pc = "compile_execute"
    /\ \E ok \in BOOLEAN :
          LET r == safe_sandbox_execute("compiler", ok) IN
          IF r.raised
          THEN /\ CompileRaises(r)
               /\ UNCHANGED <<exit_status, exit_code>>
          ELSE /\ \E report \in ExitReports :
                     /\ exit_status' = report.status
                     /\ exit_code' = report.code
               /\ CompileContinues(r.sandboxes, "compile_stdout")
    /\ UNCHANGED <<compileFrame, sandbox, executables, session_executables,
                   stdout, stderr>>
    /\ UNCHANGED manager_lines
    /\ UNCHANGED diffVars

\* lines 246-248
CompileReadStdout ==
    /\ pc = "compile_stdout"
    /\ \E ok \in BOOLEAN :
          LET r == safe_get_file_to_string("compiler_stdout.txt", ok) IN
          IF r.raised
          THEN /\ CompileRaises(r)
               /\ UNCHANGED stdout
          ELSE /\ \E s \in CompilerStdout : stdout' = OrEmpty(s)
               /\ CompileContinues(r.sandboxes, "compile_stderr")
    /\ UNCHANGED <<compileFrame, sandbox, executables, session_executables,
                   exit_status, exit_code, stderr>>
    /\ UNCHANGED manager_lines
    /\ UNCHANGED diffVars

\* lines 249-251
CompileReadStderr ==
    /\ pc = "compile_stderr"
    /\ \E ok \in BOOLEAN :
          LET r == safe_get_file_to_string("compiler_stderr.txt", ok) IN
          IF r.raised
          THEN /\ CompileRaises(r)
               /\ UNCHANGED stderr
          ELSE /\ \E s \in CompilerStderr : stderr' = OrEmpty(s)
               /\ CompileContinues(r.sandboxes, "compile_classify")
    /\ UNCHANGED <<compileFrame, sandbox, executables, session_executables,
                   exit_status, exit_code, stdout>>
    /\ UNCHANGED manager_lines
    /\ UNCHANGED diffVars

\* a classification that reports restriction hits to the user
CompileVerdict_restriction_fails(sbs, status, code, out, err) ==
    IF status = EXIT_OK /\ code = 0
    THEN finish_compilation(sbs, TRUE, TRUE, CompileText("OK", out, err))
    ELSE IF status = EXIT_OK /\ code # 0
    THEN finish_compilation(sbs, TRUE, FALSE, CompileText("Failed", out, err))
    ELSE IF status = EXIT_TIMEOUT
    THEN finish_compilation(sbs, TRUE, FALSE,
                            CompileText("Time out", out, err))
    ELSE IF status = EXIT_SIGNAL
    THEN finish_compilation(sbs, TRUE, FALSE,
                            CompileText("Killed with signal", out, err))
    ELSE IF status \in {EXIT_SYSCALL, EXIT_FILE_ACCESS}
    THEN finish_compilation(sbs, TRUE, FALSE, CompileText("Failed", out, err))
    ELSE finish_compilation_default(sbs, FALSE)

\* lines 255-314 without the extraction of the executable: which
\* finish_compilation the exit report leads to
CompileVerdict(sbs, status, code, out, err) ==
    IF status = EXIT_OK /\ code = 0
    THEN finish_compilation(sbs, TRUE, TRUE, CompileText("OK", out, err))
    ELSE IF status = EXIT_OK /\ code # 0
    THEN finish_compilation(sbs, TRUE, FALSE, CompileText("Failed", out, err))
    ELSE IF status = EXIT_TIMEOUT
    THEN finish_compilation(sbs, TRUE, FALSE,
                            CompileText("Time out", out, err))
    ELSE IF status = EXIT_SIGNAL
    THEN finish_compilation(sbs, TRUE, FALSE,
                            CompileText("Killed with signal", out, err))
    ELSE IF status = EXIT_SANDBOX_ERROR
    THEN finish_compilation_default(sbs, FALSE)
    ELSE IF status = EXIT_SYSCALL
    THEN finish_compilation_default(sbs, FALSE)
    ELSE IF status = EXIT_FILE_ACCESS
    THEN finish_compilation_default(sbs, FALSE)
    ELSE finish_compilation_default(sbs, FALSE)

\* the branch taken on EXIT_OK whatever the exit code
StagesExecutable_any_code(status, code) == status = EXIT_OK

\* lines 255-263: only on EXIT_OK with exit code 0 the executable is
\* extracted and an Executable is added to the session
StagesExecutable(status, code) == status = EXIT_OK /\ code = 0

\* the executable's name: the source's name without ".<language>"
SourceExecutable == "sol"

\* lines 253-314
CompileClassify ==
    /\ pc = "compile_classify"
    /\ IF StagesExecutable(exit_status, exit_code)
       THEN \E ok \in BOOLEAN :
               LET r == safe_get_file_to_storage(SourceExecutable, ok) IN
               IF r.raised
               THEN /\ CompileRaises(r)
                    /\ UNCHANGED <<executables, session_executables>>
               ELSE /\ session_executables' = session_executables + 1
                    /\ executables' = executables \cup {SourceExecutable}
                    /\ raised' = raised
                    /\ CompileReturns(
                           CompileVerdict(r.sandboxes, exit_status, exit_code,
                                          stdout, stderr))
       ELSE /\ CompileReturns(
                   CompileVerdict(sandboxes, exit_status, exit_code,
                                  stdout, stderr))
            /\ UNCHANGED <<raised, executables, session_executables>>
    /\ UNCHANGED <<compileFrame, sandbox, exit_status, exit_code, stdout,
                   stderr>>
    /\ UNCHANGED manager_lines
    /\ UNCHANGED diffVars

(* ------------------------------------------------------------ white_diff *)
\* Files are sequences of characters.
WHITES == <<" ", "\t", "\n">>
WhiteSet == {WHITES[i] : i \in 1..Len(WHITES)}

\* s.replace(c, WHITES[0]) for every c in WHITES[1:]
ReplaceWhites(s) ==
    [i \in 1..Len(s) |->
        IF s[i] \in {WHITES[j] : j \in 2..Len(WHITES)} THEN WHITES[1] ELSE s[i]]

\* s.split(sep): the tokens between separators, empty ones included
RECURSIVE SplitAcc(_, _, _)
SplitAcc(s, sep, cur) ==
    IF s = <<>> THEN <<cur>>
    ELSE IF Head(s) = sep THEN <<cur>> \o SplitAcc(Tail(s), sep, <<>>)
    ELSE SplitAcc(Tail(s), sep, Append(cur, Head(s)))
Split(s, sep) == SplitAcc(s, sep, <<>>)

\* filter(lambda x: x != '', tokens)
RECURSIVE FilterNonEmpty(_)
FilterNonEmpty(tokens) ==
    IF tokens = <<>> THEN <<>>
    ELSE IF Head(tokens) = <<>> THEN FilterNonEmpty(Tail(tokens))
    ELSE <<Head(tokens)>> \o FilterNonEmpty(Tail(tokens))

\* sep.join(tokens)
RECURSIVE Join(_, _)
Join(tokens, sep) ==
    IF tokens = <<>> THEN <<>>
    ELSE IF Len(tokens) = 1 THEN Head(tokens)
    ELSE Head(tokens) \o <<sep>> \o Join(Tail(tokens), sep)

\* a canonical form that strips the ends and leaves inner runs alone
white_diff_canonicalize_strip_only(s) ==
    LET t == ReplaceWhites(s)
        first == CHOOSE i \in 1..(Len(t) + 1) :
                     /\ \A j \in 1..(i - 1) : t[j] = WHITES[1]
                     /\ (i <= Len(t) => t[i] # WHITES[1])
        last == CHOOSE i \in 0..Len(t) :
                    /\ \A j \in (i + 1)..Len(t) : t[j] = WHITES[1]
                    /\ (i >= 1 => t[i] # WHITES[1])
    IN  SubSeq(t, first, last)

white_diff_canonicalize(s) ==
    Join(FilterNonEmpty(Split(ReplaceWhites(s), WHITES[1])), WHITES[1])

\* s.strip(WHITES)
RECURSIVE LStrip(_)
LStrip(s) ==
    IF s # <<>> /\ Head(s) \in WhiteSet THEN LStrip(Tail(s)) ELSE s
RECURSIVE RStrip(_)
RStrip(s) ==
    IF s # <<>> /\ s[Len(s)] \in WhiteSet
    THEN RStrip(SubSeq(s, 1, Len(s) - 1))
    ELSE s
\* a strip that removes nothing
Strip_nothing(s) == s

Strip(s) == RStrip(LStrip(s))

\* the lines readline() yields in turn: each ends with its "\n", the last
\* one may lack it
RECURSIVE ReadLinesAcc(_, _)
ReadLinesAcc(s, cur) ==
    IF s = <<>> THEN (IF cur = <<>> THEN <<>> ELSE <<cur>>)
    ELSE IF Head(s) = "\n"
    THEN <<Append(cur, "\n")>> \o ReadLinesAcc(Tail(s), <<>>)
    ELSE ReadLinesAcc(Tail(s), Append(cur, Head(s)))
ReadLines(s) == ReadLinesAcc(s, <<>>)

\* readline(): the next line, or '' at the end of the file
NextLine(lines) == IF lines = <<>> THEN <<>> ELSE Head(lines)
Rest(lines) == IF lines = <<>> THEN <<>> ELSE Tail(lines)

\* the while loop of white_diff on the lines still unread
RECURSIVE white_diff_loop(_, _)
white_diff_loop(outLines, resLines) ==
    LET lout == NextLine(outLines)
        lres == NextLine(resLines)
    IN  IF lres = <<>> /\ lout = <<>> THEN TRUE
        ELSE IF lres = <<>> \/ lout = <<>>
        THEN IF Strip(lout) # <<>> \/ Strip(lres) # <<>>
             THEN FALSE
             ELSE white_diff_loop(Rest(outLines), Rest(resLines))
        ELSE IF white_diff_canonicalize(lout) # white_diff_canonicalize(lres)
             THEN FALSE
             ELSE white_diff_loop(Rest(outLines), Rest(resLines))

white_diff(output, res) == white_diff_loop(ReadLines(output), ReadLines(res))

(* --------------------------------------------------------------- execute *)
\* An evaluation text is a sequence of characters; a fixed message of the
\* code is kept whole, as a sequence of one element.
EmptyEvaluation == [outcome |-> NoOutcome, text |-> <<None>>]

\* a finish_single_execution that leaves the sandbox alone
finish_single_execution_keeps(sbs, evals, tn, success, outcome, text) ==
    IF ~success
    THEN [ret |-> FALSE, sandboxes |-> sbs, evaluations |-> evals]
    ELSE [ret |-> TRUE, sandboxes |-> sbs,
          evaluations |->
              [evals EXCEPT ![tn + 1] = [outcome |-> outcome, text |-> text]]]

\* finish_single_execution(test_number, success, outcome, text) on
\* sandboxes sbs and evaluations evals (test_number counts from 0)
finish_single_execution(sbs, evals, tn, success, outcome, text) ==
    LET released == safe_delete_sandbox(sbs) IN
    IF ~success
    THEN [ret |-> FALSE, sandboxes |-> released, evaluations |-> evals]
    ELSE [ret |-> TRUE, sandboxes |-> released,
          evaluations |->
              [evals EXCEPT ![tn + 1] = [outcome |-> outcome, text |-> text]]]

\* finish_single_execution(test_number, False): outcome=0, text=""
finish_single_execution_default(sbs, evals, tn, success) ==
    finish_single_execution(sbs, evals, tn, success, 0, <<>>)

finish_evaluation(success) == IF ~success THEN RetFalse ELSE RetTrue

\* the classification with a non-zero exit code taken for a failure
RunVerdict_exit_code(status, code, output_exists) ==
    IF status = EXIT_OK /\ code # 0
    THEN [scoring |-> FALSE, success |-> FALSE, outcome |-> 0, text |-> <<>>]
    ELSE IF status \in {EXIT_TIMEOUT, EXIT_SIGNAL, EXIT_SYSCALL,
                        EXIT_FILE_ACCESS}
    THEN [scoring |-> FALSE, success |-> TRUE, outcome |-> OutcomeZero,
          text |-> <<"Execution failed">>]
    ELSE IF status # EXIT_OK
    THEN [scoring |-> FALSE, success |-> FALSE, outcome |-> 0, text |-> <<>>]
    ELSE IF ~output_exists
    THEN [scoring |-> FALSE, success |-> TRUE, outcome |-> OutcomeZero,
          text |-> <<"Execution didn't produce file output.txt">>]
    ELSE [scoring |-> TRUE, success |-> TRUE, outcome |-> 0, text |-> <<>>]

\* lines 341-391: what the candidate's exit report leads to.  scoring = TRUE
\* means execution goes on to line 393.
RunVerdict(status, code, output_exists) ==
    IF status = EXIT_TIMEOUT
    THEN [scoring |-> FALSE, success |-> TRUE, outcome |-> OutcomeZero,
          text |-> <<"Execution timed out\n">>]
    ELSE IF status = EXIT_SIGNAL
    THEN [scoring |-> FALSE, success |-> TRUE, outcome |-> OutcomeZero,
          text |-> <<"Execution killed with signal\n">>]
    ELSE IF status = EXIT_SANDBOX_ERROR
    THEN [scoring |-> FALSE, success |-> FALSE, outcome |-> 0, text |-> <<>>]
    ELSE IF status = EXIT_SYSCALL
    THEN [scoring |-> FALSE, success |-> TRUE, outcome |-> OutcomeZero,
          text |-> <<"Execution killed because of forbidden syscall">>]
    ELSE IF status = EXIT_FILE_ACCESS
    THEN [scoring |-> FALSE, success |-> TRUE, outcome |-> OutcomeZero,
          text |-> <<"Execution killed because of forbidden file access">>]
    ELSE IF status # EXIT_OK
    THEN [scoring |-> FALSE, success |-> FALSE, outcome |-> 0, text |-> <<>>]
    ELSE IF ~output_exists
    THEN [scoring |-> FALSE, success |-> TRUE, outcome |-> OutcomeZero,
          text |-> <<"Execution didn't produce file output.txt">>]
    ELSE [scoring |-> TRUE, success |-> TRUE, outcome |-> 0, text |-> <<>>]

\* a candidate configuration that already lets res.txt through
RunConfigure_allows_res(sb) ==
    [sb EXCEPT !.timeout = time_limit,
               !.address_space = memory_limit * KiloFactor,
               !.allow_path = {"input.txt", "output.txt", "res.txt",
                               "/proc/self/exe", "/proc/meminfo"}]

\* lines 321-337: the configuration of the candidate's sandbox
RunConfigure(sb) ==
    [sb EXCEPT !.timeout = time_limit,
               !.address_space = memory_limit * KiloFactor,
               !.allow_path = {"input.txt", "output.txt", "/proc/self/exe",
                               "/proc/meminfo"}]

\* lines 394-402: the configuration for scoring
ScoreConfigure(sb) ==
    [sb EXCEPT !.timeout = ManagerTimeout,
               !.address_space = NoAddressSpace,
               !.allow_path = {"input.txt", "output.txt", "res.txt"}]

\* lines 408-413
CompareVerdict(out_file, res_file) ==
    IF white_diff(out_file, res_file)
    THEN [outcome |-> OutcomeOne, text |-> <<"Output file is correct">>]
    ELSE [outcome |-> OutcomeZero, text |-> <<"Output file isn't correct">>]

\* what output.txt and res.txt hold
OutputFiles ==
    {<<"7", "\n">>, <<" ", "7", "\t", "\n", "\n">>, <<"8", "\n">>, <<>>}
ResFiles == {<<"7", "\n">>}

\* a byte that is not UTF-8, and a CSI escape sequence, each as one character
BadByte == "\\xff"
CSI == "\\x1b[1m"
\* a codecs reader's readline() raises UnicodeDecodeError on a bad byte
LineDecodable(line) == \A i \in 1..Len(line) : line[i] # BadByte

\* the first lines of manager_stdout.txt and manager_stderr.txt
ManagerStdoutLines ==
    {<<"0", ".", "5", "\n">>, <<"2", ".", "0", "\n">>,
     <<"-", "1", ".", "0", "\n">>, <<"a", "b", "c", "\n">>, <<>>,
     <<BadByte, "\n">>}
ManagerStderrLines == {<<CSI, "o", "k", "\n">>, <<BadByte, "\n">>}

\* filter_ansi_escape(text): the text without its CSI sequences
RECURSIVE filter_ansi_escape(_)
filter_ansi_escape(text) ==
    IF text = <<>> THEN <<>>
    ELSE IF Head(text) = CSI THEN filter_ansi_escape(Tail(text))
    ELSE <<Head(text)>> \o filter_ansi_escape(Tail(text))

\* float(s) for the numerals [-]d and [-]d.d, in tenths; anything else is a
\* ValueError
Digits == <<"0", "1", "2", "3", "4", "5", "6", "7", "8", "9">>
IsDigit(c) == \E d \in 1..Len(Digits) : Digits[d] = c
DigitValue(c) == (CHOOSE d \in 1..Len(Digits) : Digits[d] = c) - 1
IsUnsignedFloat(s) ==
    \/ Len(s) = 1 /\ IsDigit(s[1])
    \/ Len(s) = 3 /\ IsDigit(s[1]) /\ s[2] = "." /\ IsDigit(s[3])
UnsignedFloat(s) ==
    IF Len(s) = 1 THEN 10 * DigitValue(s[1])
    ELSE 10 * DigitValue(s[1]) + DigitValue(s[3])
IsFloat(s) ==
    \/ IsUnsignedFloat(s)
    \/ Len(s) > 1 /\ s[1] = "-" /\ IsUnsignedFloat(Tail(s))
Float(s) ==
    IF s[1] = "-" THEN 0 - UnsignedFloat(Tail(s)) ELSE UnsignedFloat(s)

\* a manager whose unreadable score counts as 0.0
ManagerVerdict_zero_on_error(out_line, err_line) ==
    IF ~LineDecodable(out_line) \/ ~LineDecodable(err_line)
    THEN [success |-> FALSE, outcome |-> 0, text |-> <<>>]
    ELSE [success |-> TRUE,
          outcome |-> IF IsFloat(Strip(out_line))
                      THEN Float(Strip(out_line)) ELSE OutcomeZero,
          text |-> filter_ansi_escape(err_line)]

\* lines 420-444: what the manager's first lines lead to
ManagerVerdict(out_line, err_line) ==
    IF ~LineDecodable(out_line)
    THEN [success |-> FALSE, outcome |-> 0, text |-> <<>>]
    ELSE IF ~LineDecodable(err_line)
    THEN [success |-> FALSE, outcome |-> 0, text |-> <<>>]
    ELSE IF ~IsFloat(Strip(out_line))
    THEN [success |-> FALSE, outcome |-> 0, text |-> <<>>]
    ELSE [success |-> TRUE, outcome |-> Float(Strip(out_line)),
          text |-> filter_ansi_escape(err_line)]

\* the loop without "if not success: return"
execute_loop_goes_on(success, tn) ==
    IF tn + 1 < testcases
    THEN [pc |-> "single_create", result |-> Running, test_number |-> tn + 1]
    ELSE [pc |-> "idle", result |-> finish_evaluation(success),
          test_number |-> tn]

\* lines 457-461: where execute() goes after execute_single(tn) returned
execute_loop(success, tn) ==
    IF ~success
    THEN [pc |-> "idle", result |-> finish_evaluation(FALSE),
          test_number |-> tn]
    ELSE IF tn + 1 < testcases
    THEN [pc |-> "single_create", result |-> Running, test_number |-> tn + 1]
    ELSE [pc |-> "idle", result |-> finish_evaluation(TRUE),
          test_number |-> tn]

\* what one execute_single did, kept for the call's record
Single(ret, path, wrote) ==
    [num |-> test_number, ret |-> ret, path |-> path, wrote |-> wrote]

\* execute_single returned through finish_single_execution f
SingleReturns(f, path) ==
    LET next == execute_loop(f.ret, test_number) IN
    /\ sandboxes' = Retire(f.sandboxes)
    /\ raised' = raised
    /\ evaluations' = f.evaluations
    /\ singles' =
           Append(singles,
                  Single(IF f.ret THEN RetTrue ELSE RetFalse, path,
                         IF f.ret THEN <<f.evaluations[test_number + 1]>>
                                  ELSE <<>>))
    /\ pc' = next.pc
    /\ result' = next.result
    /\ test_number' = next.test_number

\* execute_single raised JobException, and so does execute()
SingleRaises(r) ==
    /\ sandboxes' = Retire(r.sandboxes)
    /\ raised' = r.by
    /\ singles' = Append(singles, Single(JobException, "abort", <<>>))
    /\ EndCall(JobException)
    /\ UNCHANGED <<evaluations, test_number>>

\* execute_single goes on to its next sandbox operation
SingleContinues(sbs, next) ==
    /\ sandboxes' = sbs
    /\ raised' = raised
    /\ Continue(next)
    /\ UNCHANGED <<evaluations, test_number, singles>>

\* an execute() that adds no Evaluation record
AddEvaluations_none(evals, n) == evals

\* for i in xrange(len(evaluations), len(testcases)): session.add(Evaluation)
RECURSIVE AddEvaluations(_, _)
AddEvaluations(evals, n) ==
    IF Len(evals) >= n THEN evals
    ELSE AddEvaluations(Append(evals, EmptyEvaluation), n)

\* the check as "no executable at all"
ExactlyOneExecutable_some(execs) == Cardinality(execs) >= 1

\* line 447: len(self.submission.executables) != 1 ends execute()
ExactlyOneExecutable(execs) == Cardinality(execs) = 1

\* lines 446-457
ExecuteCall ==
    /\ pc = "idle"
    /\ calls < MaxCalls
    /\ calls' = calls + 1
    /\ lastCall' = "execute"
    /\ pre' = Snapshot
    /\ exit_status' = None /\ exit_code' = 0 /\ output_txt' = None
    /\ raised' = None
    /\ singles' = <<>>
    /\ test_number' = 0
    /\ IF ~ExactlyOneExecutable(executables)
       THEN /\ EndCall(finish_evaluation(FALSE))
            /\ UNCHANGED <<executable_filename, evaluations>>
       ELSE /\ executable_filename' = CHOOSE e \in executables : TRUE
            /\ evaluations' = AddEvaluations(evaluations, testcases)
            /\ IF testcases = 0
               THEN EndCall(finish_evaluation(TRUE))
               ELSE Continue("single_create")
    /\ valid' = FALSE /\ language' = None /\ files' = 0
    /\ stdout' = None /\ stderr' = None
    /\ UNCHANGED <<keep_sandbox, sandbox, sandboxes, compilation_outcome,
                   compilation_text, executables, session_executables,
                   taskVars>>
    /\ manager_lines' = <<>>
    /\ UNCHANGED diffVars

executeFrame ==
    <<calls, lastCall, keep_sandbox, files, compilation_outcome,
      compilation_text, executables, session_executables, taskVars,
      compileLocals, executable_filename, pre>>

\* line 317
SingleCreateSandbox ==
    /\ pc = "single_create"
    /\ UNCHANGED executeFrame
    /\ exit_status' = None /\ exit_code' = 0 /\ output_txt' = None
    /\ \E ok \in BOOLEAN :
          LET r == safe_create_sandbox(ok) IN
          /\ sandbox' = r.sandbox
          /\ IF r.raised THEN SingleRaises(r)
                         ELSE SingleContinues(r.sandboxes,
                                              "single_stage_executable")
    /\ manager_lines' = <<>>
    /\ UNCHANGED diffVars

\* line 318
SingleStageExecutable ==
    /\ pc = "single_stage_executable"
    /\ UNCHANGED <<executeFrame, sandbox, exit_status, exit_code,
                   output_txt>>
    /\ \E ok \in BOOLEAN :
          LET r == safe_create_file_from_storage(executable_filename, ok) IN
          IF r.raised THEN SingleRaises(r)
                      ELSE SingleContinues(r.sandboxes, "single_stage_input")
    /\ UNCHANGED manager_lines
    /\ UNCHANGED diffVars

\* lines 319-337
SingleStageInput ==
    /\ pc = "single_stage_input"
    /\ UNCHANGED <<executeFrame, sandbox, exit_status, exit_code,
                   output_txt>>
    /\ \E ok \in BOOLEAN :
          LET r == safe_create_file_from_storage("input.txt", ok) IN
          IF r.raised
          THEN SingleRaises(r)
          ELSE SingleContinues(
                   [r.sandboxes EXCEPT ![sandbox] = RunConfigure(@)],
                   "single_execute")
    /\ UNCHANGED manager_lines
    /\ UNCHANGED diffVars

\* lines 339-391
SingleExecute ==
    /\ pc = "single_execute"
    /\ UNCHANGED <<executeFrame, sandbox>>
    /\ \E ok \in BOOLEAN :
          LET r == safe_sandbox_execute(executable_filename, ok) IN
          IF r.raised
          THEN /\ UNCHANGED <<exit_status, exit_code, output_txt>>
               /\ SingleRaises(r)
          ELSE \E report \in ExitReports, output_exists \in BOOLEAN :
                  LET v == RunVerdict(report.status, report.code,
                                      output_exists)
                  IN
                  \* line 388 is reached on EXIT_OK only
                  /\ report.status # EXIT_OK => output_exists
                  /\ exit_status' = report.status
                  /\ exit_code' = report.code
                  /\ output_txt' =
                         IF report.status # EXIT_OK THEN None
                         ELSE IF output_exists THEN "present" ELSE "absent"
                  /\ IF v.scoring
                     THEN SingleContinues(r.sandboxes, "single_stage_res")
                     ELSE SingleReturns(
                              finish_single_execution(
                                  r.sandboxes, evaluations, test_number,
                                  v.success, v.outcome, v.text),
                              "run")
    /\ UNCHANGED manager_lines
    /\ UNCHANGED diffVars

\* lines 393-405
SingleStageRes ==
    /\ pc = "single_stage_res"
    /\ UNCHANGED <<executeFrame, sandbox, exit_status, exit_code,
                   output_txt>>
    /\ \E ok \in BOOLEAN :
          LET r == safe_create_file_from_storage("res.txt", ok) IN
          IF r.raised
          THEN SingleRaises(r)
          ELSE SingleContinues(
                   [r.sandboxes EXCEPT ![sandbox] = ScoreConfigure(@)],
                   IF managers = 0 THEN "single_get_output"
                                   ELSE "single_stage_manager")
    /\ UNCHANGED manager_lines
    /\ UNCHANGED diffVars

\* line 406
SingleGetOutput ==
    /\ pc = "single_get_output"
    /\ UNCHANGED <<executeFrame, sandbox, exit_status, exit_code,
                   output_txt>>
    /\ \E ok \in BOOLEAN :
          LET r == safe_get_file("output.txt", ok) IN
          IF r.raised THEN SingleRaises(r)
                      ELSE SingleContinues(r.sandboxes, "single_get_res")
    /\ UNCHANGED manager_lines
    /\ UNCHANGED diffVars

\* lines 407-413 and 444
SingleCompare ==
    /\ pc = "single_get_res"
    /\ UNCHANGED <<executeFrame, sandbox, exit_status, exit_code,
                   output_txt>>
    /\ \E ok \in BOOLEAN :
          LET r == safe_get_file("res.txt", ok) IN
          IF r.raised
          THEN SingleRaises(r)
          ELSE \E out_file \in OutputFiles, res_file \in ResFiles :
                  LET v == CompareVerdict(out_file, res_file) IN
                  SingleReturns(
                      finish_single_execution(
                          r.sandboxes, evaluations, test_number, TRUE,
                          v.outcome, v.text),
                      "comparator")
    /\ UNCHANGED manager_lines
    /\ UNCHANGED diffVars

\* lines 417-418
SingleStageManager ==
    /\ pc = "single_stage_manager"
    /\ UNCHANGED <<executeFrame, sandbox, exit_status, exit_code,
                   output_txt>>
    /\ \E ok \in BOOLEAN :
          LET r == safe_create_file_from_storage("manager", ok) IN
          IF r.raised THEN SingleRaises(r)
                      ELSE SingleContinues(r.sandboxes,
                                           "single_execute_manager")
    /\ UNCHANGED manager_lines
    /\ UNCHANGED diffVars

\* lines 419-444
SingleExecuteManager ==
    /\ pc = "single_execute_manager"
    /\ UNCHANGED <<executeFrame, sandbox, exit_status, exit_code,
                   output_txt>>
    /\ \E ok \in BOOLEAN :
          LET r == safe_sandbox_execute("manager", ok) IN
          IF r.raised
          THEN SingleRaises(r) /\ UNCHANGED manager_lines
          ELSE \E out_line \in ManagerStdoutLines,
                  err_line \in ManagerStderrLines :
                  LET v == ManagerVerdict(out_line, err_line) IN
                  /\ manager_lines' = <<out_line, err_line>>
                  /\ SingleReturns(
                         finish_single_execution(
                             r.sandboxes, evaluations, test_number, v.success,
                             v.outcome, v.text),
                         "manager")
    /\ UNCHANGED diffVars

(* ------------------------------------------------------- the whole driver *)
ExecutableNames == {SourceExecutable, "aux"}

\* the task's time limit and memory limit, both positive
TaskLimits ==
    {[time_limit |-> 1, memory_limit |-> 2],
     [time_limit |-> 2, memory_limit |-> 1]}

\* no comparison has been made outside the driver
NoDiff ==
    /\ wd_output = <<>>
    /\ wd_res = <<>>
    /\ wd_result = None
    /\ wd_edits = 0
    /\ wd_safe = TRUE

\* __init__ (lines 92-95): the driver holds a submission of a Batch task;
\* no sandbox attribute exists yet
Init ==
    /\ pc = "idle"
    /\ calls = 0
    /\ lastCall = "none"
    /\ result = "none"
    /\ keep_sandbox \in BOOLEAN
    /\ sandbox = 0
    /\ sandboxes = <<>>
    /\ files = 0
    /\ compilation_outcome = None
    /\ compilation_text = NoText
    /\ executables \in SUBSET ExecutableNames
    /\ session_executables = 0
    /\ evaluations \in
           {[i \in 1..n |-> EmptyEvaluation] : n \in 0..MaxEvaluations}
    /\ testcases \in 0..MaxTestcases
    /\ managers \in 0..MaxManagers
    /\ \E l \in TaskLimits :
          time_limit = l.time_limit /\ memory_limit = l.memory_limit
    /\ valid = FALSE
    /\ language = None
    /\ exit_status = None
    /\ exit_code = 0
    /\ output_txt = None
    /\ raised = None
    /\ stdout = None
    /\ stderr = None
    /\ test_number = 0
    /\ executable_filename = None
    /\ pre = Snapshot
    /\ singles = <<>>
    /\ manager_lines = <<>>
    /\ NoDiff

Next ==
    \/ CompileCall
    \/ CompileCreateSandbox
    \/ CompileStageSource
    \/ CompileExecute
    \/ CompileReadStdout
    \/ CompileReadStderr
    \/ CompileClassify
    \/ ExecuteCall
    \/ SingleCreateSandbox
    \/ SingleStageExecutable
    \/ SingleStageInput
    \/ SingleExecute
    \/ SingleStageRes
    \/ SingleGetOutput
    \/ SingleCompare
    \/ SingleStageManager
    \/ SingleExecuteManager

Spec == Init /\ [][Next]_vars

(* ------------------------------------------- the comparator on its own *)
\* the characters of the two files: the three of WHITES and two others
Alphabet == WhiteSet \cup {"a", "b"}
Strings == UNION {[1..n -> Alphabet] : n \in 0..MaxLen}

\* a driver that is never called
DriverIdle ==
    /\ pc = "idle"
    /\ calls = 0
    /\ lastCall = "none"
    /\ result = "none"
    /\ keep_sandbox = FALSE
    /\ sandbox = 0
    /\ sandboxes = <<>>
    /\ files = 0
    /\ compilation_outcome = None
    /\ compilation_text = NoText
    /\ executables = {}
    /\ session_executables = 0
    /\ evaluations = <<>>
    /\ testcases = 0
    /\ managers = 0
    /\ time_limit = 1
    /\ memory_limit = 1
    /\ valid = FALSE
    /\ language = None
    /\ exit_status = None
    /\ exit_code = 0
    /\ output_txt = None
    /\ raised = None
    /\ stdout = None
    /\ stderr = None
    /\ test_number = 0
    /\ executable_filename = None
    /\ pre = Snapshot
    /\ singles = <<>>
    /\ manager_lines = <<>>

\* the return value as the caller sees it
Returned(b) == IF b THEN RetTrue ELSE RetFalse

\* any two files of at most MaxLen characters
DiffInit ==
    /\ DriverIdle
    /\ wd_output \in Strings
    /\ wd_res \in Strings
    /\ wd_result = None
    /\ wd_edits = 0
    /\ wd_safe = TRUE

\* white_diff(output, res), lines 64-89
WhiteDiffCall ==
    /\ wd_result = None
    /\ wd_result' = Returned(white_diff(wd_output, wd_res))
    /\ UNCHANGED <<wd_output, wd_res, wd_edits, wd_safe>>
    /\ UNCHANGED driverVars

DiffNext == WhiteDiffCall

DiffSpec == DiffInit /\ [][DiffNext]_vars

\* a file s, and f(s) still equal to it
EditInit ==
    /\ DriverIdle
    /\ wd_output \in Strings
    /\ wd_res = wd_output
    /\ wd_result = None
    /\ wd_edits = 0
    /\ wd_safe = TRUE

InsertAt(f, p, c) == SubSeq(f, 1, p) \o <<c>> \o SubSeq(f, p + 1, Len(f))
RemoveAt(f, p) == SubSeq(f, 1, p - 1) \o SubSeq(f, p + 1, Len(f))
\* the character at position p stands between two non-whitespace characters
Inner(f, p) ==
    /\ p > 1 /\ p < Len(f)
    /\ f[p - 1] \notin WhiteSet
    /\ f[p + 1] \notin WhiteSet

\* f inserts a space or a tab after position p, and the files are compared
InsertWhite ==
    /\ wd_edits < MaxEdits
    /\ \E p \in 0..Len(wd_res), c \in {" ", "\t"} :
          /\ wd_res' = InsertAt(wd_res, p, c)
          /\ wd_safe' = (wd_safe /\ ~Inner(wd_res', p + 1))
    /\ wd_edits' = wd_edits + 1
    /\ wd_result' = Returned(white_diff(wd_output, wd_res'))
    /\ UNCHANGED wd_output
    /\ UNCHANGED driverVars

\* f removes the space or tab at position p, and the files are compared
RemoveWhite ==
    /\ wd_edits < MaxEdits
    /\ \E p \in 1..Len(wd_res) :
          /\ wd_res[p] \in {" ", "\t"}
          /\ wd_res' = RemoveAt(wd_res, p)
          /\ wd_safe' = (wd_safe /\ ~Inner(wd_res, p))
    /\ wd_edits' = wd_edits + 1
    /\ wd_result' = Returned(white_diff(wd_output, wd_res'))
    /\ UNCHANGED wd_output
    /\ UNCHANGED driverVars

\* f appends a blank line, and the files are compared
AppendBlankLine ==
    /\ wd_edits < MaxEdits
    /\ wd_res' = Append(wd_res, "\n")
    /\ wd_edits' = wd_edits + 1
    /\ wd_result' = Returned(white_diff(wd_output, wd_res'))
    /\ UNCHANGED <<wd_output, wd_safe>>
    /\ UNCHANGED driverVars

EditNext ==
    \/ InsertWhite
    \/ RemoveWhite
    \/ AppendBlankLine

EditSpec == EditInit /\ [][EditNext]_vars

(* ---------------------------------------------------------------- claims *)
Finished(call) == pc = "idle" /\ lastCall = call
CreatedInCall == (pre.sandboxes + 1)..Len(sandboxes)
LastSingle == singles[Len(singles)]
ScoringSteps ==
    {"single_stage_res", "single_get_output", "single_get_res",
     "single_stage_manager", "single_execute_manager"}

\* C1: with the keep-for-debug flag off, once a top-level compile() or
\* execute() has finished, by a return or by an exception, on any exit status
\* and any failure of a wrapped sandbox operation, no sandbox constructed
\* during that call is still allocated: delete() was invoked on each of them.
C1_SandboxAccounting ==
    (pc = "idle" /\ ~keep_sandbox) =>
        \A i \in CreatedInCall : ~Allocated(sandboxes[i])

\* an execute() that made two sandboxes and ended when reading res.txt failed
C1_Witness ==
    /\ Finished("execute")
    /\ ~keep_sandbox
    /\ Len(sandboxes) = pre.sandboxes + 2
    /\ raised = "safe_get_file"
    /\ result = JobException

\* C2: when a wrapped sandbox operation fails during compile() or
\* execute_single(i), the active sandbox is released and the enclosing
\* compile() or execute_single(i) returns False to its caller.
C2_WrappedFailureReturnsFalse ==
    (pc = "idle" /\ raised # None) =>
        /\ sandbox # 0 /\ ~keep_sandbox => ~Allocated(sandboxes[sandbox])
        /\ lastCall = "compile" => result = RetFalse
        /\ lastCall = "execute" => LastSingle.ret = RetFalse

\* C3: for a valid one-file submission whose compiler run completes (no
\* wrapped operation fails), compile() returns True with outcome "ok" exactly
\* when the status is OK and the exit code 0; returns True with outcome "fail"
\* on OK with a non-zero exit code, TIMEOUT and SIGNAL; returns False on
\* SANDBOX_ERROR, FORBIDDEN_SYSCALL, FILE_ACCESS and any other status; and it
\* returns True only with the compile record (outcome and text) updated.
C3_CompileVerdictClassification ==
    (/\ Finished("compile")
     /\ ~(~valid \/ language = None \/ files # 1)
     /\ raised = None) =>
        /\ (result = RetTrue /\ compilation_outcome = "ok")
               <=> (exit_status = EXIT_OK /\ exit_code = 0)
        /\ (\/ exit_status = EXIT_OK /\ exit_code # 0
            \/ exit_status \in {EXIT_TIMEOUT, EXIT_SIGNAL})
               => (result = RetTrue /\ compilation_outcome = "fail")
        /\ exit_status \in {EXIT_SANDBOX_ERROR, EXIT_SYSCALL,
                            EXIT_FILE_ACCESS, EXIT_UNKNOWN}
               => result = RetFalse
        /\ result = RetTrue
               => /\ compilation_outcome \in {"ok", "fail"}
                  /\ compilation_text.stdout = stdout
                  /\ compilation_text.stderr = stderr
                  /\ compilation_text.head
                         \in {"OK", "Failed", "Time out", "Killed with signal"}

\* C4: every outcome execute_single(i) writes, on the comparator path, on
\* the run-failure paths and on the grader path whatever number the grader
\* prints, lies between 0.0 and 1.0.
C4_OutcomeRange ==
    \A k \in 1..Len(singles) :
        \A w \in 1..Len(singles[k].wrote) :
            /\ OutcomeZero <= singles[k].wrote[w].outcome
            /\ singles[k].wrote[w].outcome <= OutcomeOne

\* C5: after execute() returns True the submission has as many evaluation
\* records as the task has testcases, whether it had fewer, as many or more
\* before the call.
C5_EvaluationCount ==
    (Finished("execute") /\ result = RetTrue) => Len(evaluations) = testcases

\* C6: in execute() the testcases are run in order and a False return of
\* execute_single(i) ends the call: nothing is run after it, the evaluations
\* written for the testcases before it stay as written, and execute()
\* returns True exactly when execute_single returned True for every testcase.
C6_FalseEndsExecute ==
    lastCall = "execute" =>
        /\ \A k \in 1..Len(singles) : singles[k].num = k - 1
        /\ \A k \in 1..(Len(singles) - 1) : singles[k].ret = RetTrue
        /\ \A k \in 1..Len(singles) :
              singles[k].ret = RetTrue =>
                  evaluations[k] = singles[k].wrote[1]
        /\ (Len(singles) > 0 /\ LastSingle.ret = RetFalse) =>
              (pc = "idle" /\ result = RetFalse)
        /\ (pc = "idle" /\ Cardinality(pre.executables) = 1) =>
              (result = RetTrue <=>
                  /\ Len(singles) = testcases
                  /\ \A k \in 1..Len(singles) : singles[k].ret = RetTrue)

\* the first testcase got its verdict, the second returned False
C6_Witness ==
    /\ Finished("execute")
    /\ testcases = 2
    /\ Len(singles) = 2
    /\ singles[1].ret = RetTrue
    /\ singles[2].ret = RetFalse
    /\ result = RetFalse

\* C7: in execute_single(i), TIMEOUT, SIGNAL, FORBIDDEN_SYSCALL, FILE_ACCESS
\* and OK without output.txt each write outcome 0.0 to evaluations[i] and
\* return True; SANDBOX_ERROR and any other status but OK return False; OK
\* with output.txt goes on to scoring; and on OK the exit code plays no part.
C7_CandidateRunClassification ==
    (lastCall = "execute" /\ exit_status # None) =>
        /\ (\/ exit_status \in {EXIT_TIMEOUT, EXIT_SIGNAL, EXIT_SYSCALL,
                                EXIT_FILE_ACCESS}
            \/ exit_status = EXIT_OK /\ output_txt = "absent")
               => /\ pc \in {"idle", "single_create"}
                  /\ LastSingle.path = "run"
                  /\ LastSingle.ret = RetTrue
                  /\ LastSingle.wrote[1].outcome = OutcomeZero
                  /\ evaluations[LastSingle.num + 1] = LastSingle.wrote[1]
        /\ exit_status \in {EXIT_SANDBOX_ERROR, EXIT_UNKNOWN}
               => /\ pc = "idle"
                  /\ LastSingle.path = "run"
                  /\ LastSingle.ret = RetFalse
                  /\ LastSingle.wrote = <<>>
        /\ (exit_status = EXIT_OK /\ output_txt = "present")
               => \/ pc \in ScoringSteps
                  \/ LastSingle.path # "run"

\* the candidate exited with a non-zero code and left no output.txt
C7_Witness ==
    /\ Finished("execute")
    /\ exit_status = EXIT_OK
    /\ exit_code # 0
    /\ output_txt = "absent"
    /\ LastSingle.ret = RetTrue
    /\ result = RetTrue

\* C8: execute() on a submission whose number of executables is not one
\* returns False at once: no evaluation record is added, none is modified,
\* no sandbox is created and no testcase is run.
C8_NotOneExecutable ==
    (Finished("execute") /\ Cardinality(pre.executables) # 1) =>
        /\ result = RetFalse
        /\ evaluations = pre.evaluations
        /\ Len(sandboxes) = pre.sandboxes
        /\ TotalExecutes(sandboxes) = pre.executes
        /\ singles = <<>>

\* two executables, and fewer evaluation records than testcases
C8_Witness ==
    /\ Finished("execute")
    /\ Cardinality(pre.executables) = 2
    /\ Len(pre.evaluations) < testcases
    /\ result = RetFalse

\* C9: a compile() stages exactly one Executable, linked to the submission,
\* when it takes the compile-success branch (status OK, exit code 0, the
\* executable extracted), and none otherwise: none when it returns True with
\* outcome "fail", none when it returns False, none when a wrapper aborts it.
C9_OneExecutableOnSuccess ==
    Finished("compile") =>
        LET staged == session_executables - pre.session_executables
            success == /\ exit_status = EXIT_OK
                       /\ exit_code = 0
                       /\ raised = None
        IN  /\ staged = IF success THEN 1 ELSE 0
            /\ executables =
                   IF success THEN pre.executables \cup {SourceExecutable}
                              ELSE pre.executables
            /\ (result = RetTrue /\ compilation_outcome = "ok") => staged = 1
            /\ (result = RetTrue /\ compilation_outcome = "fail")
                   => staged = 0
            /\ result \in {RetFalse, JobException} => staged = 0

\* a compile() that succeeded and staged its executable
C9_Witness ==
    /\ Finished("compile")
    /\ result = RetTrue
    /\ compilation_outcome = "ok"
    /\ session_executables = pre.session_executables + 1

\* C10: when verify_source reports the submission invalid, or gives no
\* language, or the submission has not exactly one file, compile() sets the
\* compilation outcome to "fail" with a text for the user and returns True,
\* and neither creates a sandbox nor runs a compiler.
C10_InvalidSubmission ==
    (Finished("compile") /\ (~valid \/ language = None \/ files # 1)) =>
        /\ result = RetTrue
        /\ compilation_outcome = "fail"
        /\ compilation_text = InvalidFilesText
        /\ Len(sandboxes) = pre.sandboxes
        /\ TotalExecutes(sandboxes) = pre.executes

\* verify_source found the files valid but no language
C10_Witness ==
    /\ Finished("compile")
    /\ valid
    /\ language = None
    /\ result = RetTrue
    /\ compilation_outcome = "fail"

(* ---------------------------------------------------------- comparator *)
\* the lines of a file without their line ends
RECURSIVE RefLinesAcc(_, _)
RefLinesAcc(s, cur) ==
    IF s = <<>> THEN (IF cur = <<>> THEN <<>> ELSE <<cur>>)
    ELSE IF Head(s) = "\n" THEN <<cur>> \o RefLinesAcc(Tail(s), <<>>)
    ELSE RefLinesAcc(Tail(s), Append(cur, Head(s)))
RefLines(s) == RefLinesAcc(s, <<>>)

\* the canonical form of a line: its words, one space between two of them
RECURSIVE RefCanonAcc(_, _, _)
RefCanonAcc(s, acc, gap) ==
    IF s = <<>> THEN acc
    ELSE IF Head(s) \in {" ", "\t", "\n"}
    THEN RefCanonAcc(Tail(s), acc, acc # <<>>)
    ELSE RefCanonAcc(Tail(s),
                     (IF gap THEN Append(acc, " ") ELSE acc) \o <<Head(s)>>,
                     FALSE)
RefCanon(s) == RefCanonAcc(s, <<>>, FALSE)

RefWhiteDiff(a, b) ==
    LET la == RefLines(a)
        lb == RefLines(b)
    IN  /\ \A i \in 1..Len(la) :
              IF i <= Len(lb)
              THEN RefCanon(la[i]) = RefCanon(lb[i])
              ELSE RefCanon(la[i]) = <<>>
        /\ \A i \in (Len(la) + 1)..Len(lb) : RefCanon(lb[i]) = <<>>

\* C11: white_diff(a, b) is true exactly when, pairing the lines of a and b
\* in order, every pair has the same canonical form and every unpaired line
\* of the longer file canonicalises to the empty string.
C11_WhiteDiffReference ==
    (wd_result # None) =>
        (wd_result = RetTrue <=> RefWhiteDiff(wd_output, wd_res))

\* two files that differ in whitespace and in their number of lines compare
\* equal
C11_Witness ==
    /\ wd_result = RetTrue
    /\ wd_edits = 0
    /\ Len(RefLines(wd_output)) > Len(RefLines(wd_res))
    /\ \E i \in 1..Len(wd_res) : wd_res[i] \notin WhiteSet
    /\ \E i \in 1..Len(wd_res) : wd_res[i] \in WhiteSet

\* C12 as stated: whatever spaces or tabs f inserts or removes, and whatever
\* blank lines it appends, white_diff(s, f(s)) is true.
C12_WhitespaceInvariance ==
    (wd_edits > 0) => (wd_result = RetTrue)

\* C12, amended: white_diff(s, f(s)) is true when f inserts or removes
\* spaces or tabs without joining two words or splitting one, or appends
\* blank lines.
C12_WhitespaceInvarianceAmended ==
    (wd_edits > 0 /\ wd_safe) => (wd_result = RetTrue)

\* a file with a word in it was edited twice and still compares equal
C12_Witness ==
    /\ wd_edits = MaxEdits
    /\ wd_safe
    /\ wd_result = RetTrue
    /\ \E i \in 1..Len(wd_output) : wd_output[i] \notin WhiteSet
    /\ wd_res # wd_output

(* ------------------------------------------------------------- ordering *)
\* execute_single is running, or about to
InSingle == lastCall = "execute" /\ pc # "idle"

\* the step makes the missing empty records, and no testcase has run yet
CreatesRecords ==
    /\ pc = "idle" /\ lastCall' = "execute"
    /\ Len(evaluations') = (IF Len(evaluations) >= testcases
                            THEN Len(evaluations) ELSE testcases)
    /\ \A i \in 1..Len(evaluations) : evaluations'[i] = evaluations[i]
    /\ \A i \in (Len(evaluations) + 1)..Len(evaluations') :
           evaluations'[i] = EmptyEvaluation
    /\ singles' = <<>>
    /\ TotalExecutes(sandboxes') = TotalExecutes(sandboxes)

\* the step writes evaluations[test_number] and nothing else, after every
\* earlier testcase of this call returned true
WritesInOrder ==
    /\ InSingle
    /\ Len(evaluations') = Len(evaluations)
    /\ \A i \in 1..Len(evaluations) :
           i # test_number + 1 => evaluations'[i] = evaluations[i]
    /\ Len(singles) = test_number
    /\ \A j \in 1..Len(singles) :
           singles[j].num = j - 1 /\ singles[j].ret = RetTrue
    /\ singles'[Len(singles')].num = test_number
    /\ singles'[Len(singles')].ret = RetTrue

\* C13: during execute() the evaluations are written in increasing testcase
\* order, evaluations[i] only after execute_single(j) returned true for
\* every j < i of the same call, and every missing empty Evaluation record
\* exists before the first testcase is run.
C13_WrittenInOrder ==
    [][/\ (evaluations' # evaluations) => (CreatesRecords \/ WritesInOrder)
       /\ (lastCall' = "execute" /\ pc' # "idle") =>
              Len(evaluations') >= testcases]_vars

\* two testcases were run and written, for a submission that had no record
\* for the second one
C13_Witness ==
    /\ Finished("execute")
    /\ Len(pre.evaluations) < testcases
    /\ Len(singles) = 2
    /\ \A j \in 1..2 : singles[j].ret = RetTrue
    /\ \A i \in 1..2 : evaluations[i] # EmptyEvaluation

(* ------------------------------------------------------------ sandboxes *)
AllocatedSandboxes == {i \in 1..Len(sandboxes) : Allocated(sandboxes[i])}

\* C14: with keep_sandbox off, at every point of any sequence of compile()
\* and execute() calls at most one sandbox of the driver is allocated and
\* not yet released, so a sandbox is made only when the one before it has
\* been released.
C14_AtMostOneSandbox ==
    ~keep_sandbox => Cardinality(AllocatedSandboxes) <= 1

\* the driver works in its third sandbox, the two before it are released
C14_Witness ==
    /\ ~keep_sandbox
    /\ Len(sandboxes) >= 3
    /\ AllocatedSandboxes = {Len(sandboxes)}
    /\ sandbox = Len(sandboxes)
    /\ pc # "idle"

\* C15: every sandbox has its execute operation invoked at most once, on
\* every path of compile() and execute_single(i), the grader's included.
C15_ExecuteAtMostOnce ==
    \A i \in 1..Len(sandboxes) : sandboxes[i].executes <= 1

(* ------------------------------------------------------ error handling *)
\* the compiler's output as read holds bytes that are not UTF-8
UndecodableCompilerOutput == stdout = NOT_UTF8 \/ stderr = NOT_UTF8
\* the verdict compile() classified
ClassifiedOutcome ==
    IF exit_status = EXIT_OK /\ exit_code = 0 THEN "ok" ELSE "fail"
UserVisibleCompile ==
    exit_status = EXIT_OK \/ exit_status \in {EXIT_TIMEOUT, EXIT_SIGNAL}

\* C16: when the compiler output is not UTF-8, compile() still finishes the
\* verdict it classified: the compilation text becomes the fixed error
\* message, the outcome stays as classified, and compile() returns True.
C16_UndecodableCompileText ==
    (/\ Finished("compile")
     /\ raised = None
     /\ UserVisibleCompile
     /\ UndecodableCompilerOutput) =>
        /\ result = RetTrue
        /\ compilation_text = CannotDecodeText
        /\ compilation_outcome = ClassifiedOutcome

\* evaluations[i] as it was when execute_single(i) of this call began
BeforeSingle(i) ==
    IF i <= Len(pre.evaluations) THEN pre.evaluations[i] ELSE EmptyEvaluation

\* the manager's first lines cannot be read as a score and a text
GraderParseFailure ==
    /\ manager_lines # <<>>
    /\ \/ ~LineDecodable(manager_lines[1])
       \/ ~IsFloat(Strip(manager_lines[1]))
       \/ ~LineDecodable(manager_lines[2])

\* C17: on the grader path, if the first line of the grader's stdout is not
\* UTF-8 or not a number, or the first line of its stderr is not UTF-8,
\* execute_single(i) returns False, releases the sandbox and leaves the
\* outcome and text of evaluations[i] as they were.
C17_GraderParseFailure ==
    (lastCall = "execute" /\ GraderParseFailure) =>
        /\ pc = "idle"
        /\ result = RetFalse
        /\ LastSingle.path = "manager"
        /\ LastSingle.ret = RetFalse
        /\ ~keep_sandbox => ~Allocated(sandboxes[sandbox])
        /\ evaluations[LastSingle.num + 1] = BeforeSingle(LastSingle.num + 1)

\* the second testcase's grader printed a word where a number belongs
C17_Witness ==
    /\ Finished("execute")
    /\ manager_lines # <<>>
    /\ LineDecodable(manager_lines[1])
    /\ LineDecodable(manager_lines[2])
    /\ Strip(manager_lines[1]) # <<>>
    /\ ~IsFloat(Strip(manager_lines[1]))
    /\ Len(singles) = 2
    /\ singles[1].ret = RetTrue
    /\ result = RetFalse

\* C18: a compile() that does not return True leaves the compilation outcome
\* and text as they were before the call, and an execute_single(i) that does
\* not return True leaves evaluations[i] as it was: only calls that return
\* True write user-visible results.
C18_OnlyTrueWrites ==
    /\ (Finished("compile") /\ result # RetTrue) =>
           /\ compilation_outcome = pre.compilation_outcome
           /\ compilation_text = pre.compilation_text
    /\ (lastCall = "execute" /\ singles # <<>> /\ LastSingle.ret # RetTrue) =>
           evaluations[LastSingle.num + 1] = BeforeSingle(LastSingle.num + 1)

RestrictionHit == exit_status \in {EXIT_SYSCALL, EXIT_FILE_ACCESS}

\* C19 as stated: a compiler run that hits a syscall or file-access
\* restriction is a compile failure shown to the user: the outcome is set to
\* "fail" and a text is surfaced.
C19_RestrictionIsCompileFailure ==
    (Finished("compile") /\ raised = None /\ RestrictionHit) =>
        /\ compilation_outcome = "fail"
        /\ compilation_text # pre.compilation_text
        /\ result = RetTrue

\* C19, amended: a compiler run that hits a syscall or file-access
\* restriction is an environmental failure: compile() returns False, the
\* sandbox is released and the compilation outcome and text stay as they
\* were before the call.
C19_RestrictionIsEnvironmental ==
    (Finished("compile") /\ raised = None /\ RestrictionHit) =>
        /\ result = RetFalse
        /\ compilation_outcome = pre.compilation_outcome
        /\ compilation_text = pre.compilation_text
        /\ ~keep_sandbox => ~Allocated(sandboxes[sandbox])

\* a compile() that hit a file-access restriction, after an earlier one
\* that failed for the user
C19_Witness ==
    /\ Finished("compile")
    /\ raised = None
    /\ exit_status = EXIT_FILE_ACCESS
    /\ result = RetFalse
    /\ compilation_outcome = "fail"
    /\ calls = 2

\* C20: the candidate of execute_single(i) runs with the CPU timeout equal
\* to the task's time limit and the address-space cap equal to the task's
\* memory limit, both in kilobytes.
C20_CandidateLimits ==
    (lastCall = "execute" /\ sandbox # 0) =>
        LET sb == sandboxes[sandbox] IN
        ("runs" \in DOMAIN sb /\ sb.runs # <<>>) =>
            /\ sb.runs[1].timeout = time_limit
            /\ sb.runs[1].address_space = memory_limit

(* ------------------------------------------------------- use and staging *)
\* C21: no sandbox operation, delete included, is invoked on a sandbox that
\* was already released; in particular every sandbox is deleted at most once
\* over any sequence of compile() and execute() calls, also when making the
\* next sandbox fails after an earlier one was released.
C21_DeletedAtMostOnce ==
    \A i \in 1..Len(sandboxes) : sandboxes[i].deletes <= 1

\* what the candidate must not see
ScoringFiles == {"res.txt", "manager"}
\* the sandbox execute_single is working in, while its record is kept whole
LiveSandbox ==
    /\ lastCall = "execute"
    /\ sandbox # 0
    /\ "runs" \in DOMAIN sandboxes[sandbox]

\* C22: in execute_single(i), res.txt and the grader executable are staged
\* only after the candidate has run and was classified OK with output.txt
\* present; the candidate runs in a sandbox that holds neither and whose
\* allow_path has no res.txt.
C22_ScoringFilesAfterCandidate ==
    LiveSandbox =>
        LET sb == sandboxes[sandbox] IN
        /\ sb.runs # <<>> =>
               /\ sb.runs[1].command = executable_filename
               /\ sb.runs[1].files \cap ScoringFiles = {}
               /\ "res.txt" \notin sb.runs[1].allow_path
        /\ (sb.files \cap ScoringFiles # {} \/ "res.txt" \in sb.allow_path) =>
               /\ sb.executes >= 1
               /\ exit_status = EXIT_OK
               /\ output_txt = "present"

\* the grader is about to run: res.txt and the grader are staged, the
\* candidate has run without them
C22_Witness ==
    /\ LiveSandbox
    /\ pc = "single_execute_manager"
    /\ ScoringFiles \subseteq sandboxes[sandbox].files
    /\ Len(sandboxes[sandbox].runs) = 1
    /\ sandboxes[sandbox].runs[1].files = {executable_filename, "input.txt"}

====
